---- MODULE Spec2Model ----
(***************************************************************************)
(* Model of the "API Precificador de Doces" service (src/main.py): the     *)
(* SQLite tables ingredientes, receitas and receita_ingredientes, the      *)
(* AUTOINCREMENT counters, and the HTTP handlers that read and write them. *)
(*                                                                         *)
(* Every handler opens its own connection and runs as one SQLite write     *)
(* transaction, so a handler is one atomic step on the committed database. *)
(* Python floats are modelled as exact rationals [n, d] (d > 0, lowest     *)
(* terms); a float division by zero raises ZeroDivisionError, as Python's  *)
(* does.  The created_at timestamps are not modelled.  The schema's        *)
(* FOREIGN KEY clauses are not enforced: the connections of get_conn never *)
(* issue PRAGMA foreign_keys=ON, and SQLite leaves them off by default.    *)
(*                                                                         *)
(* Spec runs every handler on few values; SpecCusto runs create_receita on *)
(* the values its arithmetic branches on, against the catalogs that        *)
(* create_ingrediente builds.  req and resp hold the last request and the  *)
(* answer it got.                                                          *)
(***************************************************************************)
EXTENDS Integers, Sequences, FiniteSets, TLC

VARIABLES ingredientes, receitas, receita_ingredientes, sqlite_sequence, req, resp

vars == <<ingredientes, receitas, receita_ingredientes, sqlite_sequence, req, resp>>

db == <<ingredientes, receitas, receita_ingredientes, sqlite_sequence>>

-----------------------------------------------------------------------------
(* Bounds of the model.                                                    *)

MaxIngredientes == 1

MaxReceitas == 1

MaxLinhas == 2

-----------------------------------------------------------------------------
(* Float arithmetic, as exact rationals.                                   *)

Abs(x) == IF x < 0 THEN -x ELSE x

RECURSIVE GCD(_, _)
GCD(a, b) == IF b = 0 THEN a ELSE GCD(b, a % b)

Rat(n, d) ==
  LET g == GCD(Abs(n), Abs(d))
      s == IF d < 0 THEN -1 ELSE 1
  IN  [n |-> (s * n) \div g, d |-> (s * d) \div g]

float(k) == [n |-> k, d |-> 1]

Zero == float(0)

add(a, b) == Rat(a.n * b.d + b.n * a.d, a.d * b.d)

mul(a, b) == Rat(a.n * b.n, a.d * b.d)

gt(a, b) == a.n * b.d > b.n * a.d

(* A value computed by Python, or the exception raised instead.            *)
Ok(v) == [exc |-> "none", v |-> v]

Raise(e) == [exc |-> e, v |-> Zero]

(* a / b on floats: raises ZeroDivisionError when b is zero.               *)
truediv(a, b) ==
  IF b.n = 0 THEN Raise("ZeroDivisionError") ELSE Ok(Rat(a.n * b.d, a.d * b.n))

(* a * b, where a may have raised.                                         *)
times(a, b) == IF a.exc # "none" THEN a ELSE Ok(mul(a.v, b))

(* max(a, b) of Python: the first argument unless the second is greater.   *)
max(a, b) == IF gt(b, a) THEN b ELSE a

-----------------------------------------------------------------------------
(* The database after init_db: three empty tables.                         *)

init_db ==
  /\ ingredientes = {}
  /\ receitas = {}
  /\ receita_ingredientes = {}
  /\ sqlite_sequence = [ingredientes |-> 0, receitas |-> 0, receita_ingredientes |-> 0]

NoReq == [op |-> "none"]

NoResp == [op |-> "none", status |-> 0]

Init ==
  /\ init_db
  /\ req = NoReq
  /\ resp = NoResp

(* A row of ingredientes built from an IngredienteIn payload.              *)
IngredienteRow(id, payload) ==
  [id |-> id, nome |-> payload.nome, unit |-> payload.unit, amount |-> payload.amount,
   price |-> payload.price, density |-> payload.density]

-----------------------------------------------------------------------------
(* POST /ingredientes                                                      *)
create_ingrediente(payload) ==
  /\ sqlite_sequence.ingredientes < MaxIngredientes
  /\ LET new_id == sqlite_sequence.ingredientes + 1
     IN  /\ ingredientes' = ingredientes \cup {IngredienteRow(new_id, payload)}
         /\ sqlite_sequence' = [sqlite_sequence EXCEPT !.ingredientes = new_id]
         /\ resp' = [op |-> "create_ingrediente", status |-> 200, id |-> new_id]
  /\ req' = [op |-> "create_ingrediente", payload |-> payload]
  /\ UNCHANGED <<receitas, receita_ingredientes>>

(* PUT /ingredientes/{id}                                                  *)
update_ingrediente(id, payload) ==
  /\ LET hit == {i \in ingredientes : i.id = id}
     IN  IF hit = {}
         THEN /\ resp' = [op |-> "update_ingrediente", status |-> 404, id |-> id]
              /\ UNCHANGED ingredientes
         ELSE /\ ingredientes' = (ingredientes \ hit) \cup {IngredienteRow(id, payload)}
              /\ resp' = [op |-> "update_ingrediente", status |-> 200, id |-> id]
  /\ req' = [op |-> "update_ingrediente", id |-> id, payload |-> payload]
  /\ UNCHANGED <<receitas, receita_ingredientes, sqlite_sequence>>

(* A delete that also deletes the recipe lines of the ingredient.          *)
delete_ingrediente_em_cascata(id) ==
  /\ LET hit == {i \in ingredientes : i.id = id}
     IN  /\ ingredientes' = ingredientes \ hit
         /\ resp' = [op |-> "delete_ingrediente",
                     status |-> IF hit = {} THEN 404 ELSE 200, id |-> id]
  /\ receita_ingredientes' = {ri \in receita_ingredientes : ri.ingrediente_id # id}
  /\ req' = [op |-> "delete_ingrediente", id |-> id]
  /\ UNCHANGED <<receitas, sqlite_sequence>>

(* DELETE /ingredientes/{id}                                               *)
delete_ingrediente(id) ==
  /\ LET hit == {i \in ingredientes : i.id = id}
     IN  /\ ingredientes' = ingredientes \ hit
         /\ resp' = [op |-> "delete_ingrediente",
                     status |-> IF hit = {} THEN 404 ELSE 200, id |-> id]
  /\ req' = [op |-> "delete_ingrediente", id |-> id]
  /\ UNCHANGED <<receitas, receita_ingredientes, sqlite_sequence>>

-----------------------------------------------------------------------------
(* POST /receitas                                                          *)

NoExc == [type |-> "none"]

ZeroDivisionError == [type |-> "ZeroDivisionError"]

(* HTTPException(status_code=404, detail="Ingrediente {id} não encontrado") *)
IngredienteNaoEncontrado(id) ==
  [type |-> "HTTPException", status_code |-> 404, ingrediente_id |-> id]

(* A conversion that rejects the unit pairs it has no rule for.            *)
convert_rejeita_par(item, ing) ==
  IF item.unidade # ing.unit
  THEN IF item.unidade = "ml" /\ ing.unit = "g"
       THEN Ok(mul(item.quantidade, ing.density))
       ELSE IF item.unidade = "g" /\ ing.unit = "ml"
       THEN truediv(item.quantidade, ing.density)
       ELSE IF item.unidade = "unit" /\ ing.unit # "unit"
       THEN Ok(mul(item.quantidade, ing.amount))
       ELSE IF ing.unit = "unit" /\ item.unidade # "unit"
       THEN truediv(item.quantidade, ing.amount)
       ELSE Raise("ValueError")
  ELSE Ok(item.quantidade)

(* A conversion that multiplies by the density in both directions.         *)
convert_so_multiplica(item, ing) ==
  IF item.unidade # ing.unit
  THEN IF item.unidade = "ml" /\ ing.unit = "g"
       THEN Ok(mul(item.quantidade, ing.density))
       ELSE IF item.unidade = "g" /\ ing.unit = "ml"
       THEN Ok(mul(item.quantidade, ing.density))
       ELSE IF item.unidade = "unit" /\ ing.unit # "unit"
       THEN Ok(mul(item.quantidade, ing.amount))
       ELSE IF ing.unit = "unit" /\ item.unidade # "unit"
       THEN truediv(item.quantidade, ing.amount)
       ELSE Ok(item.quantidade)
  ELSE Ok(item.quantidade)

(* The unit conversion of one recipe line against its ingredient row.      *)
convert(item, ing) ==
  IF item.unidade # ing.unit
  THEN IF item.unidade = "ml" /\ ing.unit = "g"
       THEN Ok(mul(item.quantidade, ing.density))
       ELSE IF item.unidade = "g" /\ ing.unit = "ml"
       THEN truediv(item.quantidade, ing.density)
       ELSE IF item.unidade = "unit" /\ ing.unit # "unit"
       THEN Ok(mul(item.quantidade, ing.amount))
       ELSE IF ing.unit = "unit" /\ item.unidade # "unit"
       THEN truediv(item.quantidade, ing.amount)
       ELSE Ok(item.quantidade)
  ELSE Ok(item.quantidade)

(* A line cost that forgets the reference amount: conv * price.           *)
custo_sem_amount(conv, ing) ==
  IF conv.exc # "none" THEN conv ELSE Ok(mul(conv.v, ing.price))

(* custo_item = (conv / amount) * price                                    *)
custo_de(conv, ing) ==
  IF conv.exc # "none" THEN conv ELSE times(truediv(conv.v, ing.amount), ing.price)

custo_item(item, ing) == custo_de(convert(item, ing), ing)

(* custo_total += custo_item, and the INSERT INTO receita_ingredientes; an *)
(* exception raised while costing the line reaches the except clause.      *)
insert_item(tx, receita_id, item, custo) ==
  IF custo.exc # "none"
  THEN [tx EXCEPT !.exc = ZeroDivisionError]
  ELSE [tx EXCEPT
          !.custo_total = add(tx.custo_total, custo.v),
          !.receita_ingredientes = tx.receita_ingredientes \cup
              {[id |-> tx.sqlite_sequence.receita_ingredientes + 1,
                receita_id |-> receita_id,
                ingrediente_id |-> item.ingrediente_id,
                quantidade |-> item.quantidade, unidade |-> item.unidade]},
          !.sqlite_sequence.receita_ingredientes = tx.sqlite_sequence.receita_ingredientes + 1]

(* One pass of the loop body: the SELECT of the line's ingredient, the 404 *)
(* when there is no such row, else the costing and the insert.             *)
fetchone(hit, tx, receita_id, item) ==
  IF hit = {}
  THEN [tx EXCEPT !.exc = IngredienteNaoEncontrado(item.ingrediente_id)]
  ELSE insert_item(tx, receita_id, item, custo_item(item, CHOOSE i \in hit : TRUE))

loop_body(tx, receita_id, item) ==
  fetchone({i \in ingredientes : i.id = item.ingrediente_id}, tx, receita_id, item)

(* for item in receita.ingredientes: ... ; an exception leaves the loop.   *)
RECURSIVE loop(_, _, _, _)
loop(tx, receita_id, itens, k) ==
  IF k > Len(itens) \/ tx.exc.type # "none"
  THEN tx
  ELSE loop(loop_body(tx, receita_id, itens[k]), receita_id, itens, k + 1)

(* A divisor that is the yield itself, not clamped.                        *)
divisor_sem_max(rendimento) == rendimento

(* The divisor of preco_por_unidade: max(receita.rendimento, 1).           *)
divisor_rendimento(rendimento) == max(rendimento, float(1))

(* Step 4: UPDATE receitas SET custo_total, preco_sugerido,                *)
(* preco_por_unidade WHERE id = receita_id.                                *)
update_receita(tx, receita_id, total_com_embalagem, preco_sugerido, preco_por_unidade) ==
  IF preco_por_unidade.exc # "none"
  THEN [tx EXCEPT !.exc = ZeroDivisionError]
  ELSE [tx EXCEPT !.receitas =
          {IF r.id = receita_id
           THEN [r EXCEPT !.custo_total = total_com_embalagem,
                          !.preco_sugerido = preco_sugerido,
                          !.preco_por_unidade = preco_por_unidade.v]
           ELSE r : r \in tx.receitas}]

(* Step 3: the final values, from the total of the lines.                  *)
preco_sugerido_de(total_com_embalagem, margem) ==
  mul(total_com_embalagem, add(float(1), truediv(margem, float(100)).v))

preco_por_unidade_de(preco_sugerido, rendimento) ==
  truediv(preco_sugerido, divisor_rendimento(rendimento))

precificar(tx, receita, receita_id, total_com_embalagem, preco_sugerido) ==
  update_receita(tx, receita_id, total_com_embalagem, preco_sugerido,
                 preco_por_unidade_de(preco_sugerido, receita.rendimento))

valores_finais(tx, receita, receita_id) ==
  IF tx.exc.type # "none"
  THEN tx
  ELSE precificar(tx, receita, receita_id, add(tx.custo_total, receita.embalagem),
                  preco_sugerido_de(add(tx.custo_total, receita.embalagem), receita.margem))

(* A rollback that undoes nothing.                                         *)
rollback_sem_efeito(before, tx) == tx

(* The database a failed transaction leaves: conn.rollback() restores the  *)
(* state committed before the handler ran.                                 *)
rollback(before, tx) == before

(* The handler: the INSERT of the receitas row (its computed columns at    *)
(* their DEFAULT 0), the loop over the lines, the final values, then the   *)
(* commit; any exception is caught by `except Exception`, which rolls back *)
(* and answers 500 with the exception in the detail.  MaxReceitas caps the *)
(* rows the table can hold: a request that would commit one more is not    *)
(* sent.                                                                   *)
create_receita(receita) ==
  /\ LET receita_id == sqlite_sequence.receitas + 1
         before == [receitas |-> receitas, receita_ingredientes |-> receita_ingredientes,
                    sqlite_sequence |-> sqlite_sequence]
         tx0 == [receitas |-> receitas \cup
                   {[id |-> receita_id, nome |-> receita.nome, categoria |-> receita.categoria,
                     rendimento |-> receita.rendimento, embalagem |-> receita.embalagem,
                     margem |-> receita.margem, custo_total |-> Zero,
                     preco_sugerido |-> Zero, preco_por_unidade |-> Zero]},
                 receita_ingredientes |-> receita_ingredientes,
                 sqlite_sequence |-> [sqlite_sequence EXCEPT !.receitas = receita_id],
                 custo_total |-> Zero,
                 exc |-> NoExc]
     IN  \E tx2 \in {valores_finais(loop(tx0, receita_id, receita.ingredientes, 1),
                                     receita, receita_id)} :
           LET after == IF tx2.exc.type = "none" THEN tx2 ELSE rollback(before, tx2)
           IN  /\ tx2.exc.type = "none" => sqlite_sequence.receitas < MaxReceitas
               /\ receitas' = after.receitas
               /\ receita_ingredientes' = after.receita_ingredientes
               /\ sqlite_sequence' = after.sqlite_sequence
               /\ resp' = IF tx2.exc.type = "none"
                          THEN [op |-> "create_receita", status |-> 200, id |-> receita_id]
                          ELSE [op |-> "create_receita", status |-> 500, detail |-> tx2.exc]
  /\ req' = [op |-> "create_receita", receita |-> receita]
  /\ UNCHANGED ingredientes

(* GET /receitas: each recipe with its lines joined to the catalog.        *)
itens_de(r) ==
  {[id |-> ri.id, quantidade |-> ri.quantidade, unidade |-> ri.unidade,
    ingrediente_id |-> i.id, nome |-> i.nome, ingrediente_unit |-> i.unit,
    price |-> i.price, amount |-> i.amount, density |-> i.density] :
     <<ri, i>> \in {p \in receita_ingredientes \X ingredientes :
                      p[1].receita_id = r.id /\ p[2].id = p[1].ingrediente_id}}

list_receitas ==
  /\ resp' = [op |-> "list_receitas", status |-> 200,
              rows |-> {[id |-> r.id, itens |-> itens_de(r)] : r \in receitas}]
  /\ req' = [op |-> "list_receitas"]
  /\ UNCHANGED db

-----------------------------------------------------------------------------
(* The requests the model sends.                                           *)

Payload(unit, amount, price, density) ==
  [nome |-> "doce", unit |-> unit, amount |-> amount, price |-> price, density |-> density]

Linha(id, quantidade, unidade) ==
  [ingrediente_id |-> id, quantidade |-> quantidade, unidade |-> unidade]

Receita(rendimento, embalagem, margem, itens) ==
  [nome |-> "brigadeiro", categoria |-> "festa", rendimento |-> rendimento,
   embalagem |-> embalagem, margem |-> margem, ingredientes |-> itens]

RECURSIVE SeqsUpTo(_, _)
SeqsUpTo(S, n) ==
  IF n = 0 THEN {<<>>}
  ELSE LET shorter == SeqsUpTo(S, n - 1)
       IN  shorter \cup {Append(s, x) : s \in {t \in shorter : Len(t) = n - 1}, x \in S}

Ids == 1 .. MaxIngredientes

(* Spec: every handler, on few values: a costable ingredient and one      *)
(* whose amount is 0, which no line can be costed against.                 *)
Payloads ==
  { Payload("g", float(100), float(5), float(1)),
    Payload("g", float(0), float(5), float(1)) }

(* The line ids reach one past the ids the counter can give: an id that is *)
(* in the catalog in no state.                                             *)
Linhas == {Linha(id, float(50), "g") : id \in 1 .. (MaxIngredientes + 1)}

Receitas ==
  {Receita(float(1), Rat(1, 2), float(50), itens) : itens \in SeqsUpTo(Linhas, MaxLinhas)}

Next ==
  \/ \E payload \in Payloads : create_ingrediente(payload)
  \/ \E id \in Ids, payload \in Payloads : update_ingrediente(id, payload)
  \/ \E id \in Ids : delete_ingrediente(id)
  \/ \E receita \in Receitas : create_receita(receita)
  \/ list_receitas

Spec == Init /\ [][Next]_vars

(* SpecCusto: the costing of the first recipe of a database, on the values *)
(* of the arithmetic: the three units and a fourth unit string, zero       *)
(* densities and amounts, yields below and above 1.                        *)
PayloadsCusto ==
  { Payload("g", float(100), float(5), float(1)),
    Payload("unit", float(1), Rat(3, 20), float(15)),
    Payload("unit", float(2), float(3), float(15)),
    Payload("ml", float(100), float(5), float(0)),
    Payload("g", float(100), float(5), float(0)),
    Payload("g", float(0), float(5), float(1)),
    Payload("kg", float(2), float(5), float(1)) }

Quantidades ==
  {<<float(50), "g">>, <<float(30), "g">>, <<float(50), "ml">>,
   <<float(2), "unit">>, <<float(50), "kg">>}

LinhasCusto == {Linha(id, qu[1], qu[2]) : id \in Ids, qu \in Quantidades}

LinhasSoma ==
  {Linha(id, qu[1], qu[2]) : id \in Ids, qu \in {<<float(50), "g">>, <<float(2), "unit">>}}

Rendimentos == {float(-5), float(0), Rat(1, 2), float(1), float(2)}

(* Recipes of at most one line at every yield, and the recipes of up to    *)
(* MaxLinhas lines at yield 1.                                             *)
ReceitasCusto ==
  {Receita(rendimento, Rat(1, 2), float(50), itens) :
     rendimento \in Rendimentos, itens \in SeqsUpTo(LinhasCusto, 1)}
  \cup {Receita(float(1), Rat(1, 2), float(50), itens) :
          itens \in SeqsUpTo(LinhasSoma, MaxLinhas)}

NextCusto ==
  \/ \E payload \in PayloadsCusto : create_ingrediente(payload)
  \/ \E receita \in ReceitasCusto : receitas = {} /\ create_receita(receita)

SpecCusto == Init /\ [][NextCusto]_vars

-----------------------------------------------------------------------------
(* What the claims speak of.  create_receita leaves ingredientes as it is, *)
(* so in the state after a create_receita request the catalog is the one   *)
(* the handler read.                                                       *)

CreateReceita == req.op = "create_receita"

Itens == req.receita.ingredientes

Conhecido(id) == \E i \in ingredientes : i.id = id

Ingrediente(id) == CHOOSE i \in ingredientes : i.id = id

(* The receitas row the last create_receita committed.                     *)
Linha200 == CHOOSE r \in receitas : r.id = resp.id

(* Exact quotient of two rationals, the divisor not zero.                  *)
quo(a, b) == Rat(a.n * b.d, a.d * b.n)

(* A line whose costing divides by no zero: its ingredient is in the       *)
(* catalog with a nonzero amount, and it is not grams against a            *)
(* millilitre ingredient of density 0.                                     *)
Custavel(item) ==
  /\ Conhecido(item.ingrediente_id)
  /\ Ingrediente(item.ingrediente_id).amount.n # 0
  /\ ~ /\ item.unidade = "g"
       /\ Ingrediente(item.ingrediente_id).unit = "ml"
       /\ Ingrediente(item.ingrediente_id).density.n = 0

(* Line k is the first line the handler cannot cost.                       *)
TodasAntesCustaveis(k) == \A j \in 1 .. (k - 1) : Custavel(Itens[j])

TodasCustaveis == \A k \in 1 .. Len(Itens) : Custavel(Itens[k])

UmaLinha == CreateReceita /\ Len(Itens) = 1 /\ Conhecido(Itens[1].ingrediente_id)

Ing1 == Ingrediente(Itens[1].ingrediente_id)

(* (quantity / amount) * price + packaging, for a one-line recipe.         *)
TotalDe(quantidade) ==
  add(mul(quo(quantidade, Ing1.amount), Ing1.price), req.receita.embalagem)

-----------------------------------------------------------------------------
(* C1: whenever create_receita fails, the database (the three tables and   *)
(* the AUTOINCREMENT counters) is exactly what it was before the call.     *)
C1_FailedCreateLeavesDatabase ==
  [][(req'.op = "create_receita" /\ resp'.status # 200) => db' = db]_vars

(* A create_receita that failed on its second line, after the first line   *)
(* was costed and inserted.                                                *)
C1_Witness ==
  /\ CreateReceita
  /\ resp.status = 500
  /\ Len(Itens) = 2
  /\ Custavel(Itens[1])
  /\ ~Conhecido(Itens[2].ingrediente_id)

(* C2: costing a recipe one of whose lines names an id that is not in the  *)
(* catalog (the lines before it being costable) fails with the not-found   *)
(* outcome, status 404, and stores no recipe.                              *)
C2_UnknownIngredientIsNotFound ==
  (/\ CreateReceita
   /\ \E k \in 1 .. Len(Itens) :
         ~Conhecido(Itens[k].ingrediente_id) /\ TodasAntesCustaveis(k))
  => resp.status = 404

(* C8: every row of ingredientes has an amount greater than 0.             *)
C8_AmountPositive == \A i \in ingredientes : i.amount.n > 0

C10_LinesReferenceCatalog ==
  \A ri \in receita_ingredientes : Conhecido(ri.ingrediente_id)

-----------------------------------------------------------------------------
(* The claims about the arithmetic, checked under SpecCusto.               *)

Unidades == {"g", "ml", "unit"}

(* The line's unit differs from the ingredient's and the pair is not one   *)
(* of the conversions between mass, volume and count.                      *)
ParIndefinido(item, ing) ==
  item.unidade # ing.unit /\ ~({item.unidade, ing.unit} \subseteq Unidades)

QuantidadeMantida(item, ing) ==
  IF item.unidade = "unit" THEN mul(item.quantidade, ing.amount)
  ELSE IF ing.unit = "unit" THEN quo(item.quantidade, ing.amount)
  ELSE item.quantidade

C4_CountMassUsesDensity ==
  (UmaLinha /\ resp.status = 200 /\ Ing1.density.n # 0)
  => /\ (Itens[1].unidade = "g" /\ Ing1.unit = "unit")
          => Linha200.custo_total = TotalDe(quo(Itens[1].quantidade, Ing1.density))
     /\ (Itens[1].unidade = "unit" /\ Ing1.unit = "g")
          => Linha200.custo_total = TotalDe(mul(Itens[1].quantidade, Ing1.density))

(* The sum over lines k.. of (converted quantity / amount) * price.        *)
RECURSIVE SomaDasLinhas(_)
SomaDasLinhas(k) ==
  IF k > Len(Itens) THEN Zero
  ELSE LET ing == Ingrediente(Itens[k].ingrediente_id)
       IN  add(mul(quo(convert(Itens[k], ing).v, ing.amount), ing.price),
               SomaDasLinhas(k + 1))

(* The recipe of the example: 50 g of an ingredient at 5.00 per 100 g,     *)
(* packaging 0.50, margin 50.                                              *)
Exemplo50g ==
  /\ UmaLinha
  /\ Itens[1].quantidade = float(50) /\ Itens[1].unidade = "g"
  /\ Ing1.unit = "g" /\ Ing1.amount = float(100) /\ Ing1.price = float(5)
  /\ req.receita.embalagem = Rat(1, 2) /\ req.receita.margem = float(50)

(* C5: a recipe whose lines are all costed is stored, its custo_total the  *)
(* sum over the lines of (converted quantity / amount) * price plus the    *)
(* packaging, its preco_sugerido custo_total * (1 + margin / 100); the     *)
(* example gives 3.00 and 4.50.                                            *)
C5_TotalAndSuggestedPrice ==
  (CreateReceita /\ TodasCustaveis)
  => /\ resp.status = 200
     /\ Linha200.custo_total = add(SomaDasLinhas(1), req.receita.embalagem)
     /\ mul(Linha200.preco_sugerido, float(100))
          = mul(Linha200.custo_total, add(float(100), req.receita.margem))
     /\ Exemplo50g => /\ Linha200.custo_total = float(3)
                      /\ Linha200.preco_sugerido = Rat(9, 2)

C5_Witness ==
  /\ Exemplo50g
  /\ resp.status = 200
  /\ Linha200.custo_total = float(3)
  /\ Linha200.preco_sugerido = Rat(9, 2)

(* C6: the price per yield unit is preco_sugerido / max(yield, 1): a yield *)
(* of 1 or less, zero and negative yields included, gives the price of     *)
(* yield 1, and no yield makes the costing divide by zero.                 *)
C6_YieldClamp ==
  (CreateReceita /\ TodasCustaveis)
  => /\ resp.status = 200
     /\ IF gt(req.receita.rendimento, float(1))
        THEN mul(Linha200.preco_por_unidade, req.receita.rendimento)
               = Linha200.preco_sugerido
        ELSE Linha200.preco_por_unidade = Linha200.preco_sugerido

(* A recipe of yield 0, stored with the price per unit of yield 1.         *)
C6_Witness ==
  /\ CreateReceita
  /\ req.receita.rendimento = float(0)
  /\ resp.status = 200
  /\ Linha200.preco_sugerido.n # 0
  /\ Linha200.preco_por_unidade = Linha200.preco_sugerido

(* C7: with a density of 0, grams against a millilitre ingredient fail     *)
(* with the division by zero and store nothing; millilitres against a gram *)
(* ingredient are costed as a quantity of 0; and a line in the unit of its *)
(* ingredient is costed with its quantity unchanged whatever the density.  *)
C7_ZeroDensity ==
  /\ (/\ CreateReceita
      /\ \E k \in 1 .. Len(Itens) :
            /\ Conhecido(Itens[k].ingrediente_id)
            /\ Itens[k].unidade = "g"
            /\ Ingrediente(Itens[k].ingrediente_id).unit = "ml"
            /\ Ingrediente(Itens[k].ingrediente_id).density.n = 0
            /\ TodasAntesCustaveis(k))
     => /\ resp.status = 500
        /\ resp.detail = ZeroDivisionError
        /\ receitas = {}
        /\ receita_ingredientes = {}
  /\ (/\ UmaLinha
      /\ Itens[1].unidade = "ml" /\ Ing1.unit = "g"
      /\ Ing1.density.n = 0 /\ Ing1.amount.n # 0)
     => /\ resp.status = 200
        /\ Linha200.custo_total = req.receita.embalagem
  /\ (UmaLinha /\ Itens[1].unidade = Ing1.unit /\ Ing1.amount.n # 0)
     => /\ resp.status = 200
        /\ Linha200.custo_total = TotalDe(Itens[1].quantidade)

(* 50 g against a millilitre ingredient of density 0: the request failed.  *)
C7_Witness ==
  /\ UmaLinha
  /\ Itens[1].unidade = "g"
  /\ Ing1.unit = "ml"
  /\ Ing1.density.n = 0
  /\ resp.status = 500
  /\ resp.detail = ZeroDivisionError

====
